---------------------------- MODULE Spec2Model ----------------------------
(***************************************************************************)
(* Model of the aes256 filter of sx-desktop-clients                        *)
(* (src/sx-api/sxfilter/filter_aes256.c): aes256_data_prepare,             *)
(* aes256_data_process and aes256_data_finish, with the host that drives   *)
(* them.                                                                   *)
(*                                                                         *)
(* Lengths are measured in units of 8 bytes, so that a stream of several   *)
(* blocks stays small: AES_BLOCK_SIZE (16 bytes) is 2 units, and every     *)
(* other length keeps its ratio to it (IV_SIZE 16 -> 2, MAC_SIZE 32 -> 4,  *)
(* KEY_SIZE 64 -> 8, ...).  FILTER_BLOCK_SIZE (16384 = 1024 AES blocks) is *)
(* BlockUnits AES blocks.                                                  *)
(*                                                                         *)
(* Bytes are numbers 0 .. 255.  The primitives of OpenSSL and bcrypt are   *)
(* modelled by small keyed functions that have the properties the filter   *)
(* relies on: a digest depends on the algorithm, on every byte of the key  *)
(* and on every byte of the message together with its place (the change of *)
(* one bit of one byte changes every byte of the digest); AES-CBC is a     *)
(* keyed permutation of bytes chained over the previous cipher block, with *)
(* PKCS padding.  OpenSSL calls that can only fail on an internal error    *)
(* are taken to succeed in aes256_data_process.                            *)
(***************************************************************************)
EXTENDS Integers, Sequences, FiniteSets, TLC

\* ------------------------------------------------------------------ sizes

\* openssl/aes.h AES_BLOCK_SIZE (16 bytes), as used in the buffer sizes.
AES_BLOCK_SIZE == 2

\* Number of AES blocks in one filter block (1024 in the program).
BlockUnits == 1

FILTER_BLOCK_SIZE == BlockUnits * AES_BLOCK_SIZE

\* #define IV_SIZE 16
IV_SIZE == AES_BLOCK_SIZE

\* #define MAC_SIZE 32
MAC_SIZE == 2 * AES_BLOCK_SIZE

\* #define SALT_SIZE 16
SALT_SIZE == AES_BLOCK_SIZE

\* #define KEY_SIZE SHA512_DIGEST_LENGTH (64)
KEY_SIZE == 4 * AES_BLOCK_SIZE

\* #define FP_SIZE (SALT_SIZE + KEY_SIZE)
FP_SIZE == SALT_SIZE + KEY_SIZE

\* openssl/evp.h EVP_MAX_MD_SIZE (64): the size of actx->ivmac and of mac[].
EVP_MAX_MD_SIZE == 4 * AES_BLOCK_SIZE

\* Digest lengths: SHA-512 (64) and SHA-1 (20: longer than IV_SIZE, shorter
\* than EVP_MAX_MD_SIZE).
SHA512_DIGEST_LENGTH == 4 * AES_BLOCK_SIZE

SHA_DIGEST_LENGTH == AES_BLOCK_SIZE + 1

\* Key length of EVP_aes_256_cbc() (32).
AES_KEY_LENGTH == 2 * AES_BLOCK_SIZE

\* sizeof(actx->in) = sizeof(actx->blk)
BufSize == IV_SIZE + FILTER_BLOCK_SIZE + AES_BLOCK_SIZE + MAC_SIZE

SXF_MODE_UPLOAD == "UPLOAD"

SXF_MODE_DOWNLOAD == "DOWNLOAD"

SXF_ACTION_NORMAL == "NORMAL"

SXF_ACTION_REPEAT == "REPEAT"

SXF_ACTION_DATA_END == "DATA_END"

\* ------------------------------------------------------- byte sequences

Min(a, b) == IF a <= b THEN a ELSE b

\* calloc / memset(.., 0, n)
Zeros(n) == [i \in 1..n |-> 0]

\* memcpy(buf + off, data, Len(data))
MemCpy(buf, off, data) ==
    [i \in 1..Len(buf) |->
        IF i > off /\ i <= off + Len(data) THEN data[i - off] ELSE buf[i]]

\* The n bytes at offset off of buf.
Bytes(buf, off, n) == SubSeq(buf, off + 1, off + n)

\* ------------------------------------------------------------ primitives

\* The modulus of the digests: a prime, so that no weighted change of one
\* byte cancels.
DigestPrime == 251

\* The sum of the bytes of s, byte j weighted by ((j + k) mod 250) + 1: a
\* weight that is never 0 modulo DigestPrime.
RECURSIVE WeightedSum(_, _, _)
WeightedSum(s, k, j) ==
    IF j > Len(s) THEN 0
    ELSE (s[j] * (((j + k) % (DigestPrime - 1)) + 1)
          + WeightedSum(s, k, j + 1)) % DigestPrime

\* The len bytes of a digest of algorithm number alg, made of the length n
\* and the weighted sum w of the message and the weighted sum k of the key:
\* a change of w changes every byte.
DigestBytes(alg, len, n, k, w) ==
    [i \in 1..len |-> (alg * i + n + (i + 1) * k + i * w) % DigestPrime]

\* A digest of len bytes of the message msg, of algorithm number alg.
Digest(alg, len, msg) ==
    DigestBytes(alg, len, Len(msg), 0, WeightedSum(msg, 0, 1))

\* HMAC_Init_ex(.., key, ..), HMAC_Update(msg), HMAC_Final: the digest of
\* algorithm alg over key and message, len bytes long.
HMAC(alg, len, key, msg) ==
    DigestBytes(alg, len, Len(msg), WeightedSum(key, 0, 1),
                WeightedSum(msg, 0, 1))

\* The algorithm numbers of EVP_sha1(), EVP_sha512(), SHA256 and of the
\* SHA-512 in derive_key.
AlgSha1 == 1

AlgSha512 == 5

AlgSha256 == 2

\* A padding that adds nothing to a plaintext of whole AES blocks.
PadLen_NoFull(n) == (AES_BLOCK_SIZE - (n % AES_BLOCK_SIZE)) % AES_BLOCK_SIZE

\* Number of padding bytes EVP_EncryptFinal_ex adds to n bytes of plaintext.
PadLen(n) == AES_BLOCK_SIZE - (n % AES_BLOCK_SIZE)

\* PKCS padding: PadLen(n) bytes, each of value PadLen(n).
Padded(p) == p \o [i \in 1..PadLen(Len(p)) |-> PadLen(Len(p))]

\* The AES permutation of byte x at place i of a block under key, and its
\* inverse.
AesByte(key, i, x) == (x + WeightedSum(key, 0, 1) + i) % 256

AesByteInv(key, i, y) == (y - WeightedSum(key, 0, 1) - i) % 256

\* AES-256-CBC encryption of the padded plaintext pp (a whole number of AES
\* blocks) under key, chained on prev (the IV first): each cipher block is
\* the permutation of the plaintext block combined with the previous cipher
\* block.
RECURSIVE CBCEncrypt(_, _, _)
CBCEncrypt(key, prev, pp) ==
    IF pp = <<>> THEN <<>>
    ELSE LET cb == [i \in 1..AES_BLOCK_SIZE |->
                       AesByte(key, i, (pp[i] + prev[i]) % 256)]
         IN  cb \o CBCEncrypt(key, cb, SubSeq(pp, AES_BLOCK_SIZE + 1, Len(pp)))

\* A decryption that combines every block with the IV instead of the
\* previous cipher block.
CBCDecrypt_NoChain(key, prev, ct) ==
    [i \in 1..((Len(ct) \div AES_BLOCK_SIZE) * AES_BLOCK_SIZE) |->
        (AesByteInv(key, ((i - 1) % AES_BLOCK_SIZE) + 1, ct[i])
         - prev[((i - 1) % AES_BLOCK_SIZE) + 1]) % 256]

\* AES-256-CBC decryption of the whole AES blocks of ct.
RECURSIVE CBCDecrypt(_, _, _)
CBCDecrypt(key, prev, ct) ==
    IF Len(ct) < AES_BLOCK_SIZE THEN <<>>
    ELSE LET cb == SubSeq(ct, 1, AES_BLOCK_SIZE)
             pb == [i \in 1..AES_BLOCK_SIZE |->
                       (AesByteInv(key, i, cb[i]) - prev[i]) % 256]
         IN  pb \o CBCDecrypt(key, cb, SubSeq(ct, AES_BLOCK_SIZE + 1, Len(ct)))

\* The number of padding bytes that EVP_DecryptFinal_ex finds at the end of
\* the decrypted bytes pp, or 0 when the padding is bad.
PadFound(pp) ==
    IF pp = <<>> THEN 0
    ELSE LET last == pp[Len(pp)]
         IN  IF /\ last \in 1..AES_BLOCK_SIZE
                /\ \A i \in 1..last : pp[Len(pp) + 1 - i] = last
             THEN last ELSE 0

\* EVP_EncryptUpdate with padding enabled writes the whole AES blocks of its
\* input; EVP_EncryptFinal_ex writes the last, padded block.
EncryptUpdateLen(n) == (n \div AES_BLOCK_SIZE) * AES_BLOCK_SIZE

\* EVP_DecryptUpdate holds the last whole block back for EVP_DecryptFinal_ex.
DecryptUpdateLen(n) ==
    IF n = 0 THEN 0
    ELSE IF n % AES_BLOCK_SIZE = 0 THEN n - AES_BLOCK_SIZE
    ELSE (n \div AES_BLOCK_SIZE) * AES_BLOCK_SIZE

\* ---------------------------------------------------- aes256_data_process

\* The result of one call: the context after it, the return value, the bytes
\* written to the caller's out buffer and the value left in *action.
Result(actx, ret, out, action) ==
    [actx |-> actx, ret |-> ret, out |-> out, action |-> action]

\* unsigned int bsize = mode == SXF_MODE_UPLOAD ? FILTER_BLOCK_SIZE : sizeof(actx->in)
BSize(mode) == IF mode = SXF_MODE_UPLOAD THEN FILTER_BLOCK_SIZE ELSE BufSize

\* A drain that, when the last pending byte is handed out, answers as if
\* the caller's input were consumed whether it is or not.
DrainPending_Eager(actx, insize, outsize, action) ==
    IF actx.data_out_left > outsize
    THEN Result([actx EXCEPT !.data_out_left = @ - outsize],
                outsize,
                Bytes(actx.blk, actx.blkbytes - actx.data_out_left, outsize),
                action)
    ELSE Result([actx EXCEPT !.data_out_left = 0,
                             !.blkbytes = 0,
                             !.data_in = 0],
                actx.data_out_left,
                Bytes(actx.blk, actx.blkbytes - actx.data_out_left,
                      actx.data_out_left),
                IF actx.data_end = 0 THEN SXF_ACTION_NORMAL
                ELSE SXF_ACTION_DATA_END)

\* The branch that hands out the bytes a previous call left in actx->blk.
DrainPending(actx, insize, outsize, action) ==
    IF actx.data_out_left > outsize
    THEN Result([actx EXCEPT !.data_out_left = @ - outsize],
                outsize,
                Bytes(actx.blk, actx.blkbytes - actx.data_out_left, outsize),
                action)
    ELSE Result([actx EXCEPT !.data_out_left = 0,
                             !.blkbytes = 0,
                             !.data_in = IF @ = insize THEN 0 ELSE @],
                actx.data_out_left,
                Bytes(actx.blk, actx.blkbytes - actx.data_out_left,
                      actx.data_out_left),
                IF actx.data_in = insize
                THEN IF actx.data_end = 0 THEN SXF_ACTION_NORMAL
                     ELSE SXF_ACTION_DATA_END
                ELSE action)

\* x >= y for the unsigned int values that the differences x and y stand
\* for: a negative difference has wrapped around to a value above every
\* size.
UGe(x, y) == IF (x < 0) = (y < 0) THEN x >= y ELSE x < 0

\* A copy of all that is left of the caller's input, whatever room the
\* staging buffer has.
IngestBytes_All(actx, insize, bsize) == insize - actx.data_in

\* Number of bytes of the caller's input that one call copies into actx->in.
IngestBytes(actx, insize, bsize) ==
    IF UGe(insize - actx.data_in, bsize - actx.inbytes)
    THEN bsize - actx.inbytes
    ELSE insize - actx.data_in

\* The copy of the next bytes of the caller's input into actx->in.
Ingest(actx, in, insize, bsize) ==
    LET bytes == IngestBytes(actx, insize, bsize)
    IN  [actx EXCEPT !.in = MemCpy(@, actx.inbytes, Bytes(in, actx.data_in, bytes)),
                     !.data_in = @ + bytes,
                     !.inbytes = @ + bytes]

\* A block condition that forgets that the end of the stream was seen in
\* an earlier call.
BlockReady_NoEnd(actx, bsize, action) ==
    \/ actx.inbytes = bsize
    \/ actx.inbytes # 0 /\ action = SXF_ACTION_DATA_END

\* if(actx->inbytes == bsize || (actx->inbytes && (*action == DATA_END || actx->data_end)))
BlockReady(actx, bsize, action) ==
    \/ actx.inbytes = bsize
    \/ /\ actx.inbytes # 0
       /\ (action = SXF_ACTION_DATA_END \/ actx.data_end # 0)

\* An IV digest that leaves the previous digest out.
IvDigest_NoChain(actx) ==
    HMAC(AlgSha1, SHA_DIGEST_LENGTH, actx.ivhash,
         Zeros(EVP_MAX_MD_SIZE) \o Bytes(actx.in, 0, actx.inbytes))

\* The IV of the block staged in actx->in: the HMAC-SHA1 digest of the
\* previous digest followed by the staged plaintext.
IvDigest(actx) ==
    HMAC(AlgSha1, SHA_DIGEST_LENGTH, actx.ivhash,
         actx.ivmac \o Bytes(actx.in, 0, actx.inbytes))

\* A MAC input that leaves the IV out.
MacInput_NoIv(buf, n) == Bytes(buf, IV_SIZE, n - IV_SIZE)

\* The bytes the block MAC is computed over: n bytes from the start of buf.
MacInput(buf, n) == Bytes(buf, 0, n)

\* hmac_final(&actx->hmac, mac, &maclen); maclen /= 2: the first MAC_SIZE
\* bytes of the HMAC-SHA512 digest.
BlockMac(actx, buf, n) ==
    Bytes(HMAC(AlgSha512, SHA512_DIGEST_LENGTH, actx.hmac, MacInput(buf, n)),
          0, SHA512_DIGEST_LENGTH \div 2)

\* Upload: actx->blk becomes IV, ciphertext and MAC of the staged plaintext.
EncryptBlock(actx) ==
    LET mac    == IvDigest(actx)
        ivaes  == Bytes(mac, 0, IV_SIZE)
        ct     == CBCEncrypt(actx.ectx, ivaes,
                             Padded(Bytes(actx.in, 0, actx.inbytes)))
        upd    == EncryptUpdateLen(actx.inbytes)
        blk1   == MemCpy(MemCpy(actx.blk, 0, ivaes), IV_SIZE, ct)
        bytes1 == upd + IV_SIZE + (Len(ct) - upd)
        a1     == [actx EXCEPT !.ivmac = MemCpy(@, 0, mac),
                               !.blk = blk1,
                               !.blkbytes = bytes1]
        tag    == BlockMac(a1, blk1, bytes1)
    IN  [ok |-> TRUE,
         actx |-> [a1 EXCEPT !.blk = MemCpy(@, bytes1, tag),
                             !.blkbytes = bytes1 + Len(tag)]]

\* A comparison that finds every two tags equal.
hmac_compare_Equal(hmac1, hmac2, len) == 0

\* hmac_compare: 0 when the len bytes are equal.
hmac_compare(hmac1, hmac2, len) ==
    IF \A i \in 1..len : hmac1[i] = hmac2[i] THEN 0 ELSE 1

\* Download: the staged wire block is authenticated, then decrypted into
\* actx->blk.
DecryptBlock(actx) ==
    IF actx.inbytes < IV_SIZE + MAC_SIZE
    THEN [ok |-> FALSE, actx |-> actx]
    ELSE LET n   == actx.inbytes - MAC_SIZE
             a1  == [actx EXCEPT !.inbytes = n]
             mac == BlockMac(a1, a1.in, n)
         IN  IF hmac_compare(Bytes(a1.in, n, MAC_SIZE), mac, MAC_SIZE) # 0
             THEN [ok |-> FALSE, actx |-> [a1 EXCEPT !.decrypt_err = 1]]
             ELSE LET ivaes == Bytes(a1.in, 0, IV_SIZE)
                      pp    == CBCDecrypt(a1.dctx, ivaes,
                                          Bytes(a1.in, IV_SIZE, n - IV_SIZE))
                      upd   == DecryptUpdateLen(n - IV_SIZE)
                      pad   == PadFound(pp)
                      a2    == [a1 EXCEPT
                                  !.blk = MemCpy(@, 0, Bytes(pp, 0, upd)),
                                  !.blkbytes = upd]
                  IN  IF (n - IV_SIZE) % AES_BLOCK_SIZE # 0 \/ pad = 0
                      THEN [ok |-> FALSE,
                            actx |-> [a2 EXCEPT !.decrypt_err = 1]]
                      ELSE [ok |-> TRUE,
                            actx |-> [a2 EXCEPT
                               !.blk = MemCpy(@, upd,
                                   Bytes(pp, upd, AES_BLOCK_SIZE - pad)),
                               !.blkbytes = upd + (AES_BLOCK_SIZE - pad)]]

\* A hand-over that counts the whole block as still pending after it gave
\* out the first outsize bytes.
EmitBlock_Whole(a0, insize, outsize) ==
    LET actx == [a0 EXCEPT !.inbytes = 0]
    IN  IF actx.blkbytes > outsize
        THEN Result([actx EXCEPT !.data_out_left = actx.blkbytes],
                    outsize, Bytes(actx.blk, 0, outsize), SXF_ACTION_REPEAT)
        ELSE Result([actx EXCEPT !.blkbytes = 0,
                                 !.data_in = IF @ = insize THEN 0 ELSE @],
                    actx.blkbytes, Bytes(actx.blk, 0, actx.blkbytes),
                    IF actx.data_in = insize
                    THEN IF actx.data_end = 0 THEN SXF_ACTION_NORMAL
                         ELSE SXF_ACTION_DATA_END
                    ELSE SXF_ACTION_REPEAT)

\* The hand-over of a freshly produced block in actx->blk to the caller.
EmitBlock(a0, insize, outsize) ==
    LET actx == [a0 EXCEPT !.inbytes = 0]
    IN  IF actx.blkbytes > outsize
        THEN Result([actx EXCEPT !.data_out_left = actx.blkbytes - outsize],
                    outsize, Bytes(actx.blk, 0, outsize), SXF_ACTION_REPEAT)
        ELSE Result([actx EXCEPT !.blkbytes = 0,
                                 !.data_in = IF @ = insize THEN 0 ELSE @],
                    actx.blkbytes, Bytes(actx.blk, 0, actx.blkbytes),
                    IF actx.data_in = insize
                    THEN IF actx.data_end = 0 THEN SXF_ACTION_NORMAL
                         ELSE SXF_ACTION_DATA_END
                    ELSE SXF_ACTION_REPEAT)

\* A call that never hands out pending output first.
DrainsFirst_Never(actx, action) == FALSE

\* Whether a call with this action hands out pending output first.
DrainsFirst(actx, action) ==
    action = SXF_ACTION_REPEAT /\ actx.data_out_left # 0

\* aes256_data_process(handle, ctx, in, insize, out, outsize, mode, action)
aes256_data_process(actx, in, insize, outsize, mode, action) ==
    IF DrainsFirst(actx, action)
    THEN DrainPending(actx, insize, outsize, action)
    ELSE
      LET bsize == BSize(mode)
          a1 == IF action = SXF_ACTION_DATA_END
                THEN [actx EXCEPT !.data_end = 1] ELSE actx
          a2 == Ingest(a1, in, insize, bsize)
      IN  IF BlockReady(a2, bsize, action)
          THEN LET r == IF mode = SXF_MODE_UPLOAD THEN EncryptBlock(a2)
                        ELSE DecryptBlock(a2)
               IN  IF r.ok THEN EmitBlock(r.actx, insize, outsize)
                   ELSE Result(r.actx, -1, <<>>, action)
          ELSE Result([a2 EXCEPT !.data_in = 0], 0, <<>>, SXF_ACTION_NORMAL)

\* ------------------------------------------------------- key derivation

\* SHA256_DIGEST_LENGTH (32)
SHA256_DIGEST_LENGTH == 2 * AES_BLOCK_SIZE

\* A password as the user types it: 8 characters, the name's letter.
Password(letter) == [i \in 1..8 |-> letter]

\* SHA256_Init / SHA256_Update(key, KEY_SIZE) / SHA256_Final
Sha256(key) == Digest(AlgSha256, SHA256_DIGEST_LENGTH, key)

\* One hexadecimal digit as a character.
HexChar(d) == IF d < 10 THEN 48 + d ELSE 87 + d

\* sxi_bin2hex: two hexadecimal digits for each byte.
Bin2Hex(bin) ==
    [i \in 1..(2 * Len(bin)) |->
        IF i % 2 = 1 THEN HexChar(bin[(i + 1) \div 2] \div 16)
        ELSE HexChar(bin[i \div 2] % 16)]

\* derive_key: SHA-512 of the string that sxi_derive_key (bcrypt) makes of
\* the password and the salt; out_size bytes.
derive_key(pass, salt, out_size) ==
    HMAC(AlgSha512, out_size, salt, pass)

\* A salt of SALT_SIZE bytes.
Salt(n) == [i \in 1..SALT_SIZE |-> (n + i) % 256]

\* The bytes of a local array that was never written: whatever the stack
\* held.
Uninit(garbage, n) == [i \in 1..n |-> garbage]

\* A fingerprint whose digest is derived from the key itself instead of the
\* hexadecimal SHA-256 of the key.
keyfp_new_Direct(key, rnd) == rnd \o derive_key(key, rnd, KEY_SIZE)

\* keyfp with current_fp = NULL: FP = FP_SALT + DIGEST, the salt drawn by
\* RAND_pseudo_bytes.
keyfp_new(key, rnd) ==
    rnd \o derive_key(Bin2Hex(Sha256(key)), rnd, KEY_SIZE)

\* A check that accepts every key.
keyfp_check_Any(key, current_fp) == 0

\* keyfp with current_fp given: 0 when the digest computed from key and the
\* salt of current_fp equals the digest of current_fp.
keyfp_check(key, current_fp) ==
    LET salt == Bytes(current_fp, 0, SALT_SIZE)
        current_digest == Bytes(current_fp, SALT_SIZE, KEY_SIZE)
        digest == derive_key(Bin2Hex(Sha256(key)), salt, KEY_SIZE)
    IN  IF digest = current_digest THEN 0 ELSE -1

\* ---------------------------------------------------- aes256_data_prepare

\* A file of <cfgdir>: absent, or present with its content.
NoFile == [exists |-> FALSE, data |-> <<>>]

File(data) == [exists |-> TRUE, data |-> data]

\* The custom_meta entry "aes256_fp": absent, or present with its value.
NoMeta == [has |-> FALSE, val |-> <<>>]

Meta(val) == [has |-> TRUE, val |-> val]

\* The places where a library or system call of aes256_data_prepare can
\* fail; a call of prepare meets at most one of them.
Faults ==
    { "none", "version", "oom_fpfile", "custfp_create", "custfp_write",
      "custfp_open", "custfp_close", "derive", "oom_keyfile", "key_open",
      "keyfp", "setval", "keyw_open", "keyw_write", "keyw_close",
      "oom_actx", "hmac1", "hmac2", "cipher" }

\* The local variables of aes256_data_prepare at its entry, with the files
\* of cfgdir, the metadata map and the host's context handle.
Frame(ctx, fs, meta, cfgdata, stack) ==
    [pc |-> "run", ret |-> 0, err |-> "",
     cfgdata |-> cfgdata,
     salt |-> Uninit(stack, SALT_SIZE),
     fp |-> Uninit(stack, FP_SIZE),
     key |-> Uninit(stack, KEY_SIZE),
     have_fp |-> 0, keyread |-> 0, prompted |-> FALSE,
     saltinit |-> FALSE, change |-> FALSE, setval |-> FALSE, met |-> "none",
     heap |-> {}, actx |-> <<>>,
     ctx |-> ctx, fs |-> fs, meta |-> meta]

\* return -1, with the error that was logged.
Fail(f, err) == [f EXCEPT !.pc = "ret", !.ret = -1, !.err = err]

\* malloc / calloc of the block named p, and free(p).
Malloc(f, p) == [f EXCEPT !.heap = @ \cup {p}]

Free(f, p) == [f EXCEPT !.heap = @ \ {p}]

\* return -1 at a library or system call that failed.
Fault(f, inp, err) == Fail([f EXCEPT !.met = inp.fault], err)

\* The runtime and compile-time OpenSSL versions are compared.
CheckVersion(f, inp) ==
    IF inp.fault = "version" THEN Fault(f, inp, "LibraryMismatch") ELSE f

\* The block that takes the configuration from the "aes256_fp" metadata
\* entry and keeps a copy of it in <cfgdir>/custfp.
Reconcile(f, inp) ==
    IF f.pc # "run" THEN f
    ELSE IF ~(f.cfgdata.null \/ Len(f.cfgdata.data) = SALT_SIZE + 1) THEN f
    ELSE IF ~f.meta.has THEN f
    ELSE
      LET mdata == f.meta.val
          f0 == [f EXCEPT !.cfgdata = [null |-> FALSE, data |-> mdata]]
          f1 == Malloc(f0, "fpfile")
      IN  IF inp.fault = "oom_fpfile" THEN Fault(f0, inp, "Oom")
          ELSE IF ~f1.fs.custfp.exists
          THEN IF inp.fault = "custfp_create"
               THEN Fault(Free(f1, "fpfile"), inp, "Io")
               ELSE IF inp.fault = "custfp_write"
               THEN Fault(Free([f1 EXCEPT !.fs.custfp = File(<<>>)], "fpfile"),
                          inp, "Io")
               ELSE IF inp.fault = "custfp_close"
               THEN Fault(Free([f1 EXCEPT !.fs.custfp = File(mdata)], "fpfile"),
                          inp, "Io")
               ELSE Free([f1 EXCEPT !.fs.custfp = File(mdata)], "fpfile")
          ELSE IF inp.fault = "custfp_open"
               THEN Fault(Free(f1, "fpfile"), inp, "Io")
               ELSE IF Len(f1.fs.custfp.data) < SALT_SIZE + FP_SIZE
               THEN Fail(Free(f1, "fpfile"), "Io")
               ELSE LET custfp == Bytes(f1.fs.custfp.data, 0, SALT_SIZE + FP_SIZE)
                        f2 == IF Bytes(custfp, 0, Len(mdata)) # mdata
                              THEN [f1 EXCEPT !.fs.custfp = NoFile,
                                              !.fs.key = NoFile,
                                              !.change = TRUE]
                              ELSE f1
                    IN  IF inp.fault = "custfp_close"
                        THEN Fault(Free(f2, "fpfile"), inp, "Io")
                        ELSE Free(f2, "fpfile")

\* getpassword: the user aborts the prompt, or (after any number of
\* rejected tries) gives a password, from which the key is derived.
GetPassword(f, inp) ==
    IF inp.user.abort THEN Fail([f EXCEPT !.prompted = TRUE], "PasswordAbort")
    ELSE IF inp.fault = "derive"
    THEN Fault([f EXCEPT !.prompted = TRUE], inp, "KeyDerivation")
    ELSE [f EXCEPT !.prompted = TRUE,
                   !.key = derive_key(inp.user.pass, f.salt, KEY_SIZE)]

\* The dispatch on cfgdata_len.
Dispatch(f, inp) ==
    IF f.pc # "run" THEN f
    ELSE IF f.cfgdata.null THEN f
    ELSE
      LET cfgdata == f.cfgdata.data
          cfgdata_len == Len(cfgdata)
      IN  IF cfgdata_len = SALT_SIZE
          THEN LET g == GetPassword(
                          [f EXCEPT !.salt = Bytes(cfgdata, 0, SALT_SIZE),
                                    !.saltinit = TRUE], inp)
               IN  IF g.pc = "run" THEN [g EXCEPT !.keyread = 1] ELSE g
          ELSE IF cfgdata_len = SALT_SIZE + 1
          THEN [f EXCEPT !.salt = Bytes(cfgdata, 0, SALT_SIZE),
                         !.saltinit = TRUE]
          ELSE IF cfgdata_len = SALT_SIZE + FP_SIZE
          THEN [f EXCEPT !.salt = Bytes(cfgdata, 0, SALT_SIZE),
                         !.saltinit = TRUE,
                         !.fp = Bytes(cfgdata, SALT_SIZE, FP_SIZE),
                         !.have_fp = 1]
          ELSE Fail(f, "ConfigurationError")

\* A prepare that never reads <cfgdir>/key.
ReadKeyFile_Never(f, inp) == f

\* open(keyfile, O_RDONLY) and read(fd, key, sizeof(key))
ReadKeyFile(f, inp) ==
    IF ~f.fs.key.exists THEN f
    ELSE IF inp.fault = "key_open" THEN [f EXCEPT !.met = inp.fault]
    ELSE IF Len(f.fs.key.data) >= KEY_SIZE
    THEN [f EXCEPT !.key = Bytes(f.fs.key.data, 0, KEY_SIZE), !.keyread = 1]
    ELSE [f EXCEPT !.key = MemCpy(@, 0, f.fs.key.data)]

\* The fingerprint is verified when one was shipped, created and stored in
\* the metadata map when none was.
Fingerprint(f, inp) ==
    IF f.have_fp # 0
    THEN IF inp.fault = "keyfp" THEN Fault(f, inp, "Fingerprint")
         ELSE IF keyfp_check(f.key, f.fp) # 0 THEN Fail(f, "InvalidPassword")
         ELSE f
    ELSE LET mdata == f.salt \o keyfp_new(f.key, inp.rnd)
         IN  IF inp.fault = "keyfp" THEN Fault(f, inp, "Fingerprint")
             ELSE IF inp.fault = "setval" THEN Fault(f, inp, "MetadataStore")
             ELSE [f EXCEPT !.meta = Meta(mdata), !.setval = TRUE]

\* A prepare that never writes <cfgdir>/key.
WriteKeyFile_Never(f, inp) == f

\* open3(keyfile, O_WRONLY | O_CREAT | O_TRUNC, 0600), write, close: a
\* failure leaves no key file and is not an error.
WriteKeyFile(f, inp) ==
    IF inp.fault = "keyw_open" THEN [f EXCEPT !.met = inp.fault]
    ELSE IF inp.fault \in {"keyw_write", "keyw_close"}
    THEN [f EXCEPT !.fs.key = NoFile, !.met = inp.fault]
    ELSE [f EXCEPT !.fs.key = File(f.key)]

\* if(!keyread) { ... }: the key is read from <cfgdir>/key, or derived from
\* the password, checked and written to <cfgdir>/key.
AcquireKey(f, inp) ==
    IF f.pc # "run" \/ f.keyread # 0 THEN f
    ELSE IF inp.fault = "oom_keyfile" THEN Fault(f, inp, "Oom")
    ELSE
      LET f1 == ReadKeyFile(Malloc(f, "keyfile"), inp)
      IN  IF f1.keyread # 0 THEN f1
          ELSE LET f2 == GetPassword(f1, inp)
               IN  IF f2.pc # "run" THEN Free(f2, "keyfile")
                   ELSE LET f3 == Fingerprint(f2, inp)
                        IN  IF f3.pc # "run" THEN Free(f3, "keyfile")
                            ELSE WriteKeyFile(f3, inp)

\* The key that EVP_EncryptInit_ex / EVP_DecryptInit_ex reads: the
\* AES_KEY_LENGTH bytes at actx->key + KEY_SIZE.  key[] and ivmac[] are
\* adjacent unsigned char arrays of struct aes256_ctx.
CipherKey(actx) == Bytes(actx.key \o actx.ivmac, KEY_SIZE, AES_KEY_LENGTH)

\* The key of both HMAC contexts: KEY_SIZE/2 bytes at actx->key.
HmacKey(actx) == Bytes(actx.key, 0, KEY_SIZE \div 2)

\* calloc(1, sizeof(struct aes256_ctx)), with the key copied in.
NewCtx(key, keyfile) ==
    [key |-> key, ivmac |-> Zeros(EVP_MAX_MD_SIZE),
     ectx |-> <<>>, dctx |-> <<>>, ivhash |-> <<>>, hmac |-> <<>>,
     inbytes |-> 0, blkbytes |-> 0, data_in |-> 0, data_out_left |-> 0,
     data_end |-> 0,
     in |-> Zeros(BufSize), blk |-> Zeros(BufSize),
     keyfile |-> keyfile, decrypt_err |-> 0]

\* An initialisation that stores the context in *ctx as soon as it is
\* allocated.
InitCtx_Early(f, inp, mode) ==
    IF f.pc # "run" THEN f
    ELSE IF inp.fault = "oom_actx" THEN Fault(Free(f, "keyfile"), inp, "Oom")
    ELSE
      LET a0 == NewCtx(f.key, "keyfile" \in f.heap)
          f1 == Malloc([f EXCEPT !.key = Zeros(KEY_SIZE), !.ctx = <<a0>>],
                       "actx")
          a1 == [a0 EXCEPT !.ivhash = HmacKey(a0), !.hmac = HmacKey(a0)]
          a2 == IF mode = SXF_MODE_UPLOAD
                THEN [a1 EXCEPT !.ectx = CipherKey(a1)]
                ELSE [a1 EXCEPT !.dctx = CipherKey(a1)]
      IN  IF inp.fault \in {"hmac1", "hmac2", "cipher"}
          THEN Fault(Free(Free(f1, "keyfile"), "actx"), inp, "Init")
          ELSE [f1 EXCEPT !.pc = "ret", !.ret = 0,
                          !.actx = <<a2>>, !.ctx = <<a2>>]

\* The allocation of the context and the initialisation of the HMAC and
\* cipher contexts; *ctx = actx at the end.
InitCtx(f, inp, mode) ==
    IF f.pc # "run" THEN f
    ELSE IF inp.fault = "oom_actx" THEN Fault(Free(f, "keyfile"), inp, "Oom")
    ELSE
      LET a0 == NewCtx(f.key, "keyfile" \in f.heap)
          f1 == Malloc([f EXCEPT !.key = Zeros(KEY_SIZE)], "actx")
          a1 == [a0 EXCEPT !.ivhash = HmacKey(a0), !.hmac = HmacKey(a0)]
          a2 == IF mode = SXF_MODE_UPLOAD
                THEN [a1 EXCEPT !.ectx = CipherKey(a1)]
                ELSE [a1 EXCEPT !.dctx = CipherKey(a1)]
      IN  IF inp.fault \in {"hmac1", "hmac2", "cipher"}
          THEN Fault(Free(Free(f1, "keyfile"), "actx"), inp, "Init")
          ELSE [f1 EXCEPT !.pc = "ret", !.ret = 0,
                          !.actx = <<a2>>, !.ctx = <<a2>>]

\* aes256_data_prepare(handle, ctx, filename, cfgdir, cfgdata, cfgdata_len,
\* custom_meta, mode): the frame at its return.
aes256_data_prepare(ctx, fs, meta, cfgdata, mode, inp) ==
    InitCtx(
      AcquireKey(
        Dispatch(
          Reconcile(
            CheckVersion(Frame(ctx, fs, meta, cfgdata, inp.stack), inp), inp), inp), inp),
      inp, mode)

\* ----------------------------------------------------- aes256_data_finish

\* HMAC_CTX_cleanup of both HMAC contexts, EVP_CIPHER_CTX_cleanup and memset
\* of the cipher context of the mode.
Cleanup(actx, mode) ==
    LET a1 == [actx EXCEPT !.hmac = <<>>, !.ivhash = <<>>]
    IN  IF mode = SXF_MODE_UPLOAD THEN [a1 EXCEPT !.ectx = <<>>]
        ELSE [a1 EXCEPT !.dctx = <<>>]

\* A teardown that does not zero the context.
Wipe_Skip(actx) == actx

\* memset(*ctx, 0, sizeof(struct aes256_ctx))
Wipe(actx) ==
    [key |-> Zeros(KEY_SIZE), ivmac |-> Zeros(EVP_MAX_MD_SIZE),
     ectx |-> <<>>, dctx |-> <<>>, ivhash |-> <<>>, hmac |-> <<>>,
     inbytes |-> 0, blkbytes |-> 0, data_in |-> 0, data_out_left |-> 0,
     data_end |-> 0,
     in |-> Zeros(BufSize), blk |-> Zeros(BufSize),
     keyfile |-> FALSE, decrypt_err |-> 0]

\* aes256_data_finish(handle, ctx, mode): the handle after it, the return
\* value, the blocks it freed and the content of the context when it was
\* freed.
aes256_data_finish(ctx, mode) ==
    IF ctx = <<>>
    THEN [ctx |-> <<>>, ret |-> 0, freed |-> {}, released |-> <<>>]
    ELSE LET a1 == Cleanup(ctx[1], mode)
             paths == IF a1.keyfile THEN {"keyfile"} ELSE {}
             a2 == Wipe(a1)
         IN  [ctx |-> <<>>, ret |-> 0, freed |-> paths \cup {"actx"},
              released |-> <<a2>>]

\* ------------------------------------------------------------- the host

VARIABLES
    ctx,      \* the host's context handle: <<>> (NULL) or <<actx>>
    fs,       \* the files key and custfp of cfgdir
    meta,     \* the custom_meta entry aes256_fp
    phase,    \* idle, run, complete, failed, misused, wire, done
    mode,     \* the mode of the session
    plain,    \* the plaintext the host uploads
    src,      \* the stream the host feeds to the session
    pos,      \* the offset in src of the slice of the last call
    insize,   \* the size of the slice of the last call
    act,      \* the value of *action after the last call
    endSent,  \* the host has passed SXF_ACTION_DATA_END
    sink,     \* the bytes the session has delivered so far
    wire,     \* the bytes the finished upload delivered
    tamper,   \* <<>>, or <<i, b>>: bit b of byte i of the wire was flipped
    last,     \* what the last call of process was given and returned
    prep,     \* what the last call of prepare was given and returned
    first,    \* the last prepare was a first session on an empty cfgdir
    sessions, \* the number of calls of prepare so far
    fin       \* what the last call of finish was given and returned

vars == <<ctx, fs, meta, phase, mode, plain, src, pos, insize, act, endSent,
          sink, wire, tamper, last, prep, first, sessions, fin>>

\* The longest plaintext: two whole blocks and a byte.
PlainMax == 2 * FILTER_BLOCK_SIZE + 1

\* The plaintext of n bytes: byte i has value i, so that a lost, doubled or
\* displaced byte shows.
PlainOf(n) == [i \in 1..n |-> i]

\* The sizes of the host's output buffer: 1 .. 2*BLOCK, and one that holds
\* a whole wire block.
OutSizes == (1..(2 * FILTER_BLOCK_SIZE)) \cup {BufSize}

\* The bits of a byte that the transport may flip: the lowest and the
\* highest.
FlipBits == {0, 7}

\* byte with bit b flipped.
Flip(byte, b) ==
    IF (byte \div (2 ^ b)) % 2 = 1 THEN byte - 2 ^ b ELSE byte + 2 ^ b

\* The wire with bit t[2] of byte t[1] flipped; t = <<>> leaves it as it is.
Tampered(w, t) ==
    IF t = <<>> THEN w ELSE [w EXCEPT ![t[1]] = Flip(@, t[2])]

\* The volume's salt, and the salt RAND_pseudo_bytes draws.
VolumeSalt == Salt(40)

RandomSalt == Salt(100)

\* The passwords of the volume: the right one and another one.
PassA == Password(65)

PassB == Password(66)

NoCall ==
    [called |-> FALSE, action |-> SXF_ACTION_NORMAL, ret |-> 0, wrote |-> 0,
     out_left |-> 0, data_in |-> 0, inbytes |-> 0, data_end |-> 0]

\* What a call was given (the action, the counters of the context at
\* entry) and what it returned (the return value, the number of bytes it
\* wrote to the caller's out buffer).
CallRecord(actx, action, ret, out) ==
    [called |-> TRUE, action |-> action, ret |-> ret, wrote |-> Len(out),
     out_left |-> actx.data_out_left, data_in |-> actx.data_in,
     inbytes |-> actx.inbytes, data_end |-> actx.data_end]

EmptyDir == [key |-> NoFile, custfp |-> NoFile]

\* The values that the bytes of a local array hold before it is written.
StackBytes == {0, 255}

\* The inputs of a prepare: the failure it meets, what the user does at the
\* password prompt, the salt drawn and the bytes the stack held.
Inputs(fault, abort, pass, stack) ==
    [fault |-> fault, user |-> [abort |-> abort, pass |-> pass],
     rnd |-> RandomSalt, stack |-> stack]

NoPrep ==
    [called |-> FALSE, len |-> 0, null |-> FALSE, pass |-> <<>>,
     abort |-> FALSE, fault |-> "none", ret |-> 0, err |-> "",
     have_fp |-> 0, fp |-> <<>>, prompted |-> FALSE, key |-> <<>>,
     ctxkey |-> <<>>, keyBefore |-> NoFile, keyAfter |-> NoFile,
     afterFirst |-> FALSE, saltinit |-> FALSE, change |-> FALSE,
     stored |-> FALSE, heap |-> {}, handle |-> <<>>]

\* What a call of prepare was given (the configuration, the key file it
\* found, whether it follows a first session, the failure it met if that
\* changed its course, what the user did if the password was prompted for)
\* and the frame f at its return (the local key if one was read or derived,
\* whether the salt was set, whether a password change was noticed and a
\* fingerprint stored, the blocks still allocated, the host's handle).
PrepRecord(cfgdata, inp, f, keyBefore, afterFirst) ==
    [called |-> TRUE, len |-> Len(cfgdata.data), null |-> cfgdata.null,
     pass |-> IF f.prompted THEN inp.user.pass ELSE <<>>,
     abort |-> f.prompted /\ inp.user.abort,
     fault |-> f.met,
     ret |-> f.ret, err |-> f.err, have_fp |-> f.have_fp,
     fp |-> IF f.have_fp # 0 THEN f.fp ELSE <<>>,
     prompted |-> f.prompted,
     key |-> IF f.prompted \/ f.keyread # 0 THEN f.key ELSE <<>>,
     ctxkey |-> IF f.ret = 0 THEN f.ctx[1].key ELSE <<>>,
     keyBefore |-> keyBefore, keyAfter |-> f.fs.key,
     afterFirst |-> afterFirst, saltinit |-> f.saltinit,
     change |-> f.change, stored |-> f.setval, heap |-> f.heap,
     handle |-> f.ctx]

NoFin ==
    [called |-> FALSE, none |-> FALSE, again |-> FALSE, keyfile |-> FALSE,
     ret |-> 0, freed |-> {}, released |-> <<>>]

\* What a call of finish was given (no context, or one that owned the path
\* keyfile or not; whether the call before it was a finish too) and what
\* it returned.
FinRecord(handle, r) ==
    [called |-> TRUE, none |-> handle = <<>>, again |-> fin.called,
     keyfile |-> handle # <<>> /\ handle[1].keyfile,
     ret |-> r.ret, freed |-> r.freed, released |-> r.released]

Init ==
    /\ ctx = <<>>
    /\ fs = EmptyDir
    /\ meta = NoMeta
    /\ phase = "idle"
    /\ mode = SXF_MODE_UPLOAD
    /\ plain = <<>>
    /\ src = <<>>
    /\ pos = 0
    /\ insize = 0
    /\ act = SXF_ACTION_NORMAL
    /\ endSent = FALSE
    /\ sink = <<>>
    /\ wire = <<>>
    /\ tamper = <<>>
    /\ last = NoCall
    /\ prep = NoPrep
    /\ first = FALSE
    /\ sessions = 0
    /\ fin = NoFin

\* The context of a session in mode m: prepare in paranoid mode (the
\* configuration is the volume's salt), the user typing the password.
SessionCtx(m) ==
    aes256_data_prepare(<<>>, EmptyDir, NoMeta,
        [null |-> FALSE, data |-> VolumeSalt], m,
        Inputs("none", FALSE, PassA, 0)).ctx

\* The host opens a session on stream s in mode m.
Open(m, s) ==
    /\ ctx' = SessionCtx(m)
    /\ phase' = "run"
    /\ mode' = m
    /\ src' = s
    /\ pos' = 0
    /\ insize' = 0
    /\ act' = SXF_ACTION_NORMAL
    /\ endSent' = FALSE
    /\ sink' = <<>>
    /\ last' = NoCall
    /\ fin' = NoFin
    /\ UNCHANGED <<fs, meta, prep, first, sessions>>

\* The host starts the upload of a plaintext of n bytes.
BeginUpload(n) ==
    /\ phase = "idle"
    /\ plain' = PlainOf(n)
    /\ Open(SXF_MODE_UPLOAD, PlainOf(n))
    /\ UNCHANGED <<wire, tamper>>

\* The host starts the download of the wire bytes, as they are or with one
\* bit flipped.
BeginDownload(t) ==
    /\ phase = "wire"
    /\ tamper' = t
    /\ Open(SXF_MODE_DOWNLOAD, Tampered(wire, t))
    /\ UNCHANGED <<plain, wire>>

\* One call of process by the host: the n bytes of src at offset p with
\* action a, an output buffer of m bytes; obeys tells whether the call
\* follows the answer of the last one.
Call(p, n, a, m, obeys) ==
    \E r \in {aes256_data_process(ctx[1], Bytes(src, p, n), n, m, mode, a)} :
        /\ ctx' = <<r.actx>>
        /\ pos' = p
        /\ insize' = n
        /\ act' = r.action
        /\ endSent' = (endSent \/ a = SXF_ACTION_DATA_END)
        /\ sink' = sink \o r.out
        /\ last' = CallRecord(ctx[1], a, r.ret, r.out)
        /\ phase' = IF ~obeys THEN "misused"
                    ELSE IF r.ret < 0 THEN "failed"
                    ELSE IF endSent' /\ r.action # SXF_ACTION_REPEAT
                    THEN "complete"
                    ELSE "run"
        /\ UNCHANGED <<fs, meta, mode, plain, src, wire, tamper, prep, first,
                       sessions, fin>>

\* The host offers the next n bytes of the stream: with SXF_ACTION_NORMAL
\* while more will follow, with SXF_ACTION_DATA_END when they are the last.
Offer(n, a, m) ==
    /\ phase = "run"
    /\ act # SXF_ACTION_REPEAT
    /\ pos + insize + n <= Len(src)
    /\ a = SXF_ACTION_DATA_END => pos + insize + n = Len(src)
    /\ Call(pos + insize, n, a, m, TRUE)

\* The host was answered SXF_ACTION_REPEAT: it calls again with the same
\* slice and SXF_ACTION_REPEAT.
Again(m) ==
    /\ phase = "run"
    /\ act = SXF_ACTION_REPEAT
    /\ Call(pos, insize, SXF_ACTION_REPEAT, m, TRUE)

\* A host that does not follow the answer: output is pending and it calls
\* with the same slice and an action other than SXF_ACTION_REPEAT.
Disobey(a, m) ==
    /\ phase = "run"
    /\ ctx[1].data_out_left > 0
    /\ Call(pos, insize, a, m, FALSE)

\* The host ends the session, after the end of the stream or a failure.
Finish ==
    /\ phase \in {"complete", "failed", "misused"}
    /\ \E r \in {aes256_data_finish(ctx, mode)} :
          /\ ctx' = r.ctx
          /\ fin' = FinRecord(ctx, r)
    /\ wire' = IF phase = "complete" /\ mode = SXF_MODE_UPLOAD THEN sink
               ELSE wire
    /\ phase' = IF phase = "complete" /\ mode = SXF_MODE_UPLOAD THEN "wire"
                ELSE "done"
    /\ UNCHANGED <<fs, meta, mode, plain, src, pos, insize, act, endSent,
                   sink, tamper, last, prep, first, sessions>>

\* The host calls finish on a handle that holds no context: before any
\* session, or once more after the session was ended.
FinishAgain ==
    /\ phase \in {"idle", "wire", "done"}
    /\ ctx = <<>>
    /\ \E r \in {aes256_data_finish(ctx, mode)} :
          /\ ctx' = r.ctx
          /\ fin' = FinRecord(ctx, r)
    /\ UNCHANGED <<fs, meta, phase, mode, plain, src, pos, insize, act,
                   endSent, sink, wire, tamper, last, prep, first, sessions>>

\* The sizes of the slices the host offers: up to the longest plaintext.
Slices == 0..PlainMax

Next ==
    \/ \E n \in 0..PlainMax : BeginUpload(n)
    \/ \E n \in Slices, m \in OutSizes : Offer(n, SXF_ACTION_NORMAL, m)
    \/ \E n \in Slices, m \in OutSizes : Offer(n, SXF_ACTION_DATA_END, m)
    \/ \E m \in OutSizes : Again(m)
    \/ Finish
    \/ BeginDownload(<<>>)

\* Uploads and downloads by a host that follows the answers of process.
Spec == Init /\ [][Next]_vars

\* The plaintexts whose wire the transport may tamper with: up to a whole
\* block and a byte (two wire blocks).
TamperMax == FILTER_BLOCK_SIZE + 1

NextTamper ==
    \/ \E n \in 0..TamperMax : BeginUpload(n)
    \/ \E n \in Slices, m \in OutSizes : Offer(n, SXF_ACTION_NORMAL, m)
    \/ \E n \in Slices, m \in OutSizes : Offer(n, SXF_ACTION_DATA_END, m)
    \/ \E m \in OutSizes : Again(m)
    \/ Finish
    \/ \E i \in 1..Len(wire), b \in FlipBits : BeginDownload(<<i, b>>)

\* Uploads whose wire bytes reach the download with one bit flipped.
SpecTamper == Init /\ [][NextTamper]_vars

NextHost ==
    \/ Next
    \/ \E m \in OutSizes : Disobey(SXF_ACTION_NORMAL, m)
    \/ \E m \in OutSizes : Disobey(SXF_ACTION_DATA_END, m)

\* The same, with a host that may not follow the answer SXF_ACTION_REPEAT.
SpecHost == Init /\ [][NextHost]_vars

\* The wire blocks of w in another order: the first two exchanged, or the
\* first one left out.
Rearranged(w, how) ==
    LET n2 == Min(BufSize, Len(w) - BufSize)
    IN  IF how = "swap"
        THEN Bytes(w, BufSize, n2) \o Bytes(w, 0, BufSize)
             \o Bytes(w, BufSize + n2, Len(w) - BufSize - n2)
        ELSE Bytes(w, BufSize, Len(w) - BufSize)

\* The host starts the download of the wire blocks of an upload of more
\* than one block, in another order than the upload produced them.
BeginRearranged(how) ==
    /\ phase = "wire"
    /\ Len(wire) > BufSize
    /\ tamper' = <<>>
    /\ Open(SXF_MODE_DOWNLOAD, Rearranged(wire, how))
    /\ UNCHANGED <<plain, wire>>

NextReorder ==
    \/ \E n \in 0..PlainMax : BeginUpload(n)
    \/ \E n \in Slices, m \in OutSizes : Offer(n, SXF_ACTION_NORMAL, m)
    \/ \E n \in Slices, m \in OutSizes : Offer(n, SXF_ACTION_DATA_END, m)
    \/ \E m \in OutSizes : Again(m)
    \/ Finish
    \/ \E how \in {"swap", "drop"} : BeginRearranged(how)

\* Uploads whose wire blocks reach the download in another order.
SpecReorder == Init /\ [][NextReorder]_vars

\* The wire block that holds byte i of w, and its length.
BlockOf(i) == (i - 1) \div BufSize

BlockLen(w, k) == Min(BufSize, Len(w) - k * BufSize)

\* The wire w with the tag of its block k computed anew over the bytes the
\* block now holds, as a holder of the volume key can do.
Retagged(w, k) ==
    LET n == BlockLen(w, k) - MAC_SIZE
        b == Bytes(w, k * BufSize, n)
    IN  MemCpy(w, k * BufSize + n,
               BlockMac(SessionCtx(SXF_MODE_UPLOAD)[1], b, n))

\* The host starts the download of wire bytes in which a holder of the key
\* changed byte i and gave the block a tag that matches.
BeginForged(i) ==
    /\ phase = "wire"
    /\ i \in 1..Len(wire)
    /\ tamper' = <<i, 7>>
    /\ Open(SXF_MODE_DOWNLOAD, Retagged(Tampered(wire, <<i, 7>>), BlockOf(i)))
    /\ UNCHANGED <<plain, wire>>

NextForge ==
    \/ NextTamper
    \/ \E i \in 1..(2 * BufSize) : BeginForged(i)

\* Uploads whose wire bytes reach the download with one bit flipped, under
\* the tag of the upload or under a tag that matches the changed block.
SpecForge == Init /\ [][NextForge]_vars

\* The most that data_in may be when a host that goes on after a failure
\* calls.
DataInMax == BufSize + AES_BLOCK_SIZE

\* The memory behind the caller's slice, as far as a call may read it.
Beyond(junk) == [i \in 1..(DataInMax + BufSize) |-> junk]

\* A host that goes on after a call of process failed: it calls with any
\* slice of the stream and any buffer size; it passes SXF_ACTION_REPEAT
\* when that was the answer to the call before.
Wild(p, n, a, m, junk) ==
    /\ phase = "failed"
    /\ (a = SXF_ACTION_REPEAT) = (act = SXF_ACTION_REPEAT)
    /\ p + n <= Len(src)
    /\ ctx[1].data_in <= DataInMax
    /\ Len(sink) <= 2 * BufSize
    /\ \E r \in {aes256_data_process(ctx[1], Bytes(src, p, n) \o Beyond(junk),
                                      n, m, mode, a)} :
          /\ ctx' = <<r.actx>>
          /\ pos' = p
          /\ insize' = n
          /\ act' = r.action
          /\ endSent' = (endSent \/ a = SXF_ACTION_DATA_END)
          /\ sink' = sink \o r.out
          /\ last' = CallRecord(ctx[1], a, r.ret, r.out)
          /\ phase' = IF r.ret < 0 THEN "failed" ELSE "misused"
    /\ UNCHANGED <<fs, meta, mode, plain, src, wire, tamper, prep, first,
                   sessions, fin>>

\* The slices and buffer sizes of the host that goes on after a failure.
WildSlices == {0, 1, FILTER_BLOCK_SIZE, BufSize}

WildOutSizes == {1, BufSize}

NextAny ==
    \/ \E n \in 0..TamperMax : BeginUpload(n)
    \/ \E n \in Slices, m \in OutSizes : Offer(n, SXF_ACTION_NORMAL, m)
    \/ \E n \in Slices, m \in OutSizes : Offer(n, SXF_ACTION_DATA_END, m)
    \/ \E m \in OutSizes : Again(m)
    \/ Finish
    \/ \E i \in {1, Len(wire)} : BeginDownload(<<i, 0>>)
    \/ \E p \in {0, 1}, n \in WildSlices, m \in WildOutSizes,
          a \in {SXF_ACTION_NORMAL, SXF_ACTION_REPEAT, SXF_ACTION_DATA_END},
          junk \in StackBytes : Wild(p, n, a, m, junk)

\* Sessions with a host that goes on calling process after it failed.
SpecAny == Init /\ [][NextAny]_vars

NextFinish ==
    \/ NextTamper
    \/ FinishAgain

\* Sessions that complete or fail, with a host that may call finish on a
\* handle that holds no context.
SpecFinish == Init /\ [][NextFinish]_vars

\* ------------------------------------------------- the host, at prepare

\* cfgdata = NULL, and cfgdata of the given bytes.
CfgNull == [null |-> TRUE, data |-> <<>>]

Cfg(data) == [null |-> FALSE, data |-> data]

\* The configurations of the volume: paranoid (the salt), nogenkey (the
\* salt and one byte), normal (the salt and the fingerprint of the key of
\* a password), one of no known length and an empty one.
CfgParanoid == Cfg(VolumeSalt)

CfgNogenkey == Cfg(VolumeSalt \o <<0>>)

CfgNormal(pass) ==
    Cfg(VolumeSalt
        \o keyfp_new(derive_key(pass, VolumeSalt, KEY_SIZE), RandomSalt))

CfgBad == Cfg(VolumeSalt \o <<0, 0>>)

CfgEmpty == Cfg(<<>>)

Configurations ==
    {CfgNull, CfgParanoid, CfgNogenkey, CfgNormal(PassA), CfgNormal(PassB),
     CfgBad, CfgEmpty}

\* What the user does at the prompt: aborts, or types one of the passwords.
Users ==
    {[abort |-> TRUE, pass |-> <<>>],
     [abort |-> FALSE, pass |-> PassA],
     [abort |-> FALSE, pass |-> PassB]}

\* The number of sessions on the cfgdir that are followed.
MaxSessions == 2

\* The host calls prepare for a new session.
Prepare(cfgdata, m, fault, user, stack) ==
    /\ phase = "idle"
    /\ ctx = <<>>
    /\ sessions < MaxSessions
    /\ sessions' = sessions + 1
    /\ \E f \in {aes256_data_prepare(ctx, fs, meta, cfgdata, m,
                     Inputs(fault, user.abort, user.pass, stack))} :
          /\ ctx' = f.ctx
          /\ fs' = f.fs
          /\ meta' = f.meta
          /\ mode' = IF f.ret = 0 THEN m ELSE mode
          /\ prep' = PrepRecord(cfgdata,
                         Inputs(fault, user.abort, user.pass, stack), f,
                         fs.key, first)
          /\ first' = /\ fs = EmptyDir
                      /\ meta = NoMeta
                      /\ cfgdata = CfgNogenkey
                      /\ ~user.abort
                      /\ user.pass = PassA
                      /\ f.ret = 0
    /\ fin' = NoFin
    /\ UNCHANGED <<phase, plain, src, pos, insize, act, endSent, sink, wire,
                   tamper, last>>

\* The host ends the session it prepared.
Release ==
    /\ phase = "idle"
    /\ ctx # <<>>
    /\ \E r \in {aes256_data_finish(ctx, mode)} :
          /\ ctx' = r.ctx
          /\ fin' = FinRecord(ctx, r)
    /\ UNCHANGED <<fs, meta, phase, mode, plain, src, pos, insize, act,
                   endSent, sink, wire, tamper, last, prep, first, sessions>>

\* The stack bytes that a prepare with this configuration may read: the
\* local arrays are read unwritten only when there is no configuration at
\* all.
StackRead(cfgdata) ==
    IF cfgdata.null /\ ~meta.has THEN StackBytes ELSE {0}

NextPrep ==
    \/ \E c \in Configurations, m \in {SXF_MODE_UPLOAD, SXF_MODE_DOWNLOAD},
          x \in Faults, u \in Users :
          \E b \in StackRead(c) : Prepare(c, m, x, u, b)
    \/ Release

\* Sessions prepared and ended on one cfgdir and one metadata map.
SpecPrep == Init /\ [][NextPrep]_vars

\* The values of the "aes256_fp" entry of a volume whose password is A, and
\* of one whose password is B.
VolumeFp(pass) == CfgNormal(pass).data

\* Between two sessions the host fetches the volume's custom metadata, which
\* another client has set: custom_meta now holds the fingerprint v.
SetMeta(v) ==
    /\ phase = "idle"
    /\ ctx = <<>>
    /\ meta # Meta(v)
    /\ meta' = Meta(v)
    /\ first' = FALSE
    /\ UNCHANGED <<ctx, fs, phase, mode, plain, src, pos, insize, act,
                   endSent, sink, wire, tamper, last, prep, sessions, fin>>

NextChange ==
    \/ NextPrep
    \/ \E pass \in {PassA, PassB} : SetMeta(VolumeFp(pass))

\* Sessions on a volume whose password another client may change.
SpecChange == Init /\ [][NextChange]_vars

\* ---------------------------------------------------------- properties

\* a is the first Len(a) bytes of b.
IsPrefix(a, b) == Len(a) <= Len(b) /\ a = SubSeq(b, 1, Len(a))

\* The bytes a host receives that follows the answer r of a call on the
\* whole stream s with an output buffer that holds a whole block, calling
\* again while it is answered SXF_ACTION_REPEAT; acc is what it has so far.
RECURSIVE Drive(_, _, _, _)
Drive(r, s, m, acc) ==
    IF r.ret < 0 THEN acc
    ELSE IF r.action = SXF_ACTION_REPEAT
    THEN Drive(aes256_data_process(r.actx, s, Len(s), BufSize, m,
                                   SXF_ACTION_REPEAT),
               s, m, acc \o r.out)
    ELSE acc \o r.out

\* The bytes of a session in mode m that is given the whole stream s in one
\* call with SXF_ACTION_DATA_END and output buffers that hold a whole block.
OneShot(m, s) ==
    Drive(aes256_data_process(SessionCtx(m)[1], s, Len(s), BufSize, m,
                              SXF_ACTION_DATA_END),
          s, m, <<>>)

\* C1. Round trip: the download of the wire bytes of an upload never fails,
\* delivers at every moment a prefix of the plaintext, and has delivered
\* exactly the plaintext when it is complete, whatever the chunks and the
\* output buffer sizes of the upload and of the download were.
RoundTrip ==
    mode = SXF_MODE_DOWNLOAD =>
        /\ phase # "failed"
        /\ IsPrefix(sink, plain)
        /\ phase = "complete" => sink = plain

\* A download of the longest plaintext (several blocks) is complete.
RoundTripDone ==
    /\ mode = SXF_MODE_DOWNLOAD
    /\ phase = "complete"
    /\ Len(plain) = PlainMax
    /\ sink = plain

\* The index, from 0, of the wire block that holds the flipped byte.
TamperedBlock == (tamper[1] - 1) \div BufSize

\* C2, as the specification states it. Tamper detection: the download of a
\* wire with one bit flipped fails with a negative return and decrypt_err
\* set, and no plaintext byte at all was delivered.
TamperNoOutput ==
    (mode = SXF_MODE_DOWNLOAD /\ tamper # <<>> /\ phase = "failed") =>
        /\ last.ret < 0
        /\ ctx[1].decrypt_err = 1
        /\ sink = <<>>

\* C2, amended. The download of a wire with one bit flipped never
\* completes; it fails with a negative return and decrypt_err set; what it
\* delivered is the plaintext of the wire blocks before the tampered one,
\* and no byte of the tampered block or of a later one.
TamperDetection ==
    (mode = SXF_MODE_DOWNLOAD /\ tamper # <<>>) =>
        /\ phase # "complete"
        /\ IsPrefix(sink, plain)
        /\ Len(sink) <= FILTER_BLOCK_SIZE * TamperedBlock
        /\ phase = "failed" => last.ret < 0 /\ ctx[1].decrypt_err = 1

\* A download failed on a bit flipped in the second wire block, after the
\* plaintext of the first block was delivered.
TamperAfterFirstBlock ==
    /\ mode = SXF_MODE_DOWNLOAD
    /\ tamper # <<>>
    /\ phase = "failed"
    /\ tamper[1] > BufSize
    /\ Len(sink) = FILTER_BLOCK_SIZE

\* The key of the cipher context of the session's mode.
SessionCipherKey(actx) ==
    IF mode = SXF_MODE_UPLOAD THEN actx.ectx ELSE actx.dctx

\* C3. Key halves: after a successful prepare both HMAC contexts are keyed
\* with the first half of the master key and the cipher context with its
\* second half.
KeyHalves ==
    ctx # <<>> =>
        /\ ctx[1].ivhash = Bytes(ctx[1].key, 0, KEY_SIZE \div 2)
        /\ ctx[1].hmac = Bytes(ctx[1].key, 0, KEY_SIZE \div 2)
        /\ SessionCipherKey(ctx[1])
              = Bytes(ctx[1].key, KEY_SIZE \div 2, AES_KEY_LENGTH)

\* C4. Streaming equivalence: a complete upload that was fed the plaintext
\* in chunks of any sizes has delivered the wire bytes that an upload fed
\* the whole plaintext in a single SXF_ACTION_DATA_END call delivers.
StreamingEquivalence ==
    (mode = SXF_MODE_UPLOAD /\ phase = "complete") =>
        sink = OneShot(SXF_MODE_UPLOAD, plain)

\* An upload of the longest plaintext is complete whose last chunk began
\* inside a block and reached over a block boundary.
StraddlingChunks ==
    /\ mode = SXF_MODE_UPLOAD
    /\ phase = "complete"
    /\ Len(plain) = PlainMax
    /\ pos % FILTER_BLOCK_SIZE # 0
    /\ insize > FILTER_BLOCK_SIZE
    /\ sink = OneShot(SXF_MODE_UPLOAD, plain)

\* C5. Output buffer sizing: with output buffers of any sizes, the bytes a
\* session has delivered are at every moment the first bytes of what a host
\* with buffers that hold a whole block receives, and all of them when the
\* session is complete: no staged byte is skipped or delivered twice.
OutputSizing ==
    phase \in {"run", "complete"} =>
        /\ IsPrefix(sink, OneShot(mode, src))
        /\ phase = "complete" => sink = OneShot(mode, src)

\* A call with SXF_ACTION_REPEAT and a buffer of one byte handed out one
\* byte of a pending block and left more of it pending.
PartlyDrained ==
    /\ phase = "run"
    /\ last.called
    /\ last.action = SXF_ACTION_REPEAT
    /\ last.out_left > 1
    /\ last.ret = 1
    /\ ctx[1].data_out_left = last.out_left - 1
    /\ IsPrefix(sink, OneShot(mode, src))

\* C6. End of stream: once the host has passed SXF_ACTION_DATA_END,
\* data_end stays set and process answers SXF_ACTION_REPEAT or
\* SXF_ACTION_DATA_END, never SXF_ACTION_NORMAL, and SXF_ACTION_DATA_END
\* only when no output is pending.
EndOfStream ==
    (endSent /\ phase \in {"run", "complete"}) =>
        /\ ctx[1].data_end = 1
        /\ act # SXF_ACTION_NORMAL
        /\ act = SXF_ACTION_DATA_END => ctx[1].data_out_left = 0

\* C7. A call entered with output pending, whatever its action, takes no
\* byte of the caller's input (inbytes and data_in do not grow) and hands
\* out bytes of the pending block only.
NoIntakeWhilePending ==
    (last.called /\ last.out_left > 0 /\ ctx # <<>>) =>
        /\ ctx[1].inbytes = last.inbytes
        /\ ctx[1].data_in <= last.data_in
        /\ last.ret <= last.out_left

\* The last call handed out the last pending bytes.
DrainedLast ==
    /\ last.called
    /\ ctx # <<>>
    /\ last.out_left > 0
    /\ last.ret >= 0
    /\ ctx[1].data_out_left = 0

\* C8, as the specification states it. Hand-over after draining: the call
\* that hands out the last pending bytes answers SXF_ACTION_NORMAL or
\* SXF_ACTION_DATA_END (by data_end) when the caller's slice was consumed,
\* and else goes on in the same call to take input of the slice.
DrainHandOverSameCall ==
    DrainedLast =>
        IF last.data_in = insize
        THEN act = IF ctx[1].data_end = 0 THEN SXF_ACTION_NORMAL
                   ELSE SXF_ACTION_DATA_END
        ELSE ctx[1].inbytes > last.inbytes \/ ctx[1].data_in > last.data_in

\* C8, amended. The call that hands out the last pending bytes answers
\* SXF_ACTION_NORMAL or SXF_ACTION_DATA_END (by data_end) when the caller's
\* slice was consumed; else it returns the pending bytes only, takes no
\* input and leaves SXF_ACTION_REPEAT, and it is the next call (entered
\* with SXF_ACTION_REPEAT and nothing pending) that takes input of the
\* slice.
DrainHandOver ==
    /\ DrainedLast =>
          IF last.data_in = insize
          THEN /\ act = IF ctx[1].data_end = 0 THEN SXF_ACTION_NORMAL
                        ELSE SXF_ACTION_DATA_END
               /\ ctx[1].data_in = 0
          ELSE /\ act = SXF_ACTION_REPEAT
               /\ last.ret = last.out_left
               /\ ctx[1].inbytes = last.inbytes
               /\ ctx[1].data_in = last.data_in
    /\ (/\ last.called
        /\ phase = "run"
        /\ last.action = SXF_ACTION_REPEAT
        /\ last.out_left = 0) =>
          /\ last.data_in < insize
          /\ ctx[1].data_in > last.data_in \/ ctx[1].data_in = 0

\* A call handed out the last pending bytes while input of the caller's
\* slice was not consumed yet.
DrainedWithInputLeft ==
    /\ DrainedLast
    /\ phase = "run"
    /\ last.data_in < insize
    /\ act = SXF_ACTION_REPEAT

\* fp is the fingerprint of key (with the salt that fp carries).
KeyMatches(key, fp) == fp = keyfp_new(key, Bytes(fp, 0, SALT_SIZE))

\* C9, as the specification states it. A prepare whose configuration
\* carries a fingerprint succeeds only with a master key that matches the
\* fingerprint, however the key was obtained.
FingerprintAlways ==
    (prep.called /\ prep.have_fp # 0 /\ prep.ret = 0) =>
        KeyMatches(prep.ctxkey, prep.fp)

\* C9, amended. A prepare whose configuration carries a fingerprint and that
\* derives the master key from the prompted password succeeds only if the
\* key matches the fingerprint, and a key that does not match makes it fail
\* with InvalidPassword; a key read from <cfgdir>/key is not checked.
FingerprintOnPrompt ==
    (prep.called /\ prep.have_fp # 0 /\ prep.prompted) =>
        /\ prep.ret = 0 => KeyMatches(prep.ctxkey, prep.fp)
        /\ (prep.ret # 0 /\ prep.fault = "none" /\ ~prep.abort) =>
              /\ prep.err = "InvalidPassword"
              /\ ~KeyMatches(prep.key, prep.fp)
        /\ prep.err = "InvalidPassword" => ~KeyMatches(prep.key, prep.fp)

\* A prepare with a fingerprint prompted, was given the other password and
\* failed with InvalidPassword.
MismatchRejected ==
    /\ prep.called
    /\ prep.have_fp # 0
    /\ prep.prompted
    /\ prep.pass = PassB
    /\ prep.ret = -1
    /\ prep.err = "InvalidPassword"

\* The last prepare follows a first session (empty cfgdir, no metadata, the
\* 17-byte configuration, password A), has the same configuration, meets
\* no failure of a library or system call, and its user types password B
\* if the password is prompted for.
SecondWithB ==
    /\ prep.called
    /\ prep.afterFirst
    /\ ~prep.null
    /\ prep.len = SALT_SIZE + 1
    /\ prep.fault = "none"
    /\ prep.prompted => ~prep.abort /\ prep.pass = PassB

\* C10, as the specification states it. After a first session with password
\* A, a prepare whose user would type password B fails with InvalidPassword
\* and writes no key file.
WrongPasswordRejected ==
    SecondWithB =>
        /\ prep.ret = -1
        /\ prep.err = "InvalidPassword"
        /\ prep.keyAfter = prep.keyBefore

\* C10, amended. After a first session with password A, a prepare whose
\* user would type password B fails with InvalidPassword and writes no key
\* file when <cfgdir>/key is absent (the first session could not write it);
\* when the first session wrote <cfgdir>/key, the prepare reads the key
\* from it, prompts for no password and succeeds.
WrongPasswordOrKeyFile ==
    SecondWithB =>
        IF prep.keyBefore.exists
        THEN /\ prep.ret = 0
             /\ ~prep.prompted
             /\ prep.ctxkey = prep.keyBefore.data
             /\ prep.keyAfter = prep.keyBefore
        ELSE /\ prep.ret = -1
             /\ prep.prompted
             /\ prep.err = "InvalidPassword"
             /\ prep.keyAfter = NoFile

\* The second prepare found no key file, prompted and rejected password B.
WrongPasswordNoKeyFile ==
    /\ SecondWithB
    /\ ~prep.keyBefore.exists
    /\ prep.ret = -1
    /\ prep.err = "InvalidPassword"

\* C11. Password change: when <cfgdir>/custfp holds a value other than the
\* "aes256_fp" entry and prepare is given the 17-byte configuration, then
\* at its successful return <cfgdir>/custfp holds the entry's value and
\* <cfgdir>/key does not exist.
PasswordChange ==
    (/\ prep.called
     /\ ctx # <<>>
     /\ prep.change
     /\ ~prep.null
     /\ prep.len = SALT_SIZE + 1) =>
        /\ fs.custfp = File(meta.val)
        /\ ~fs.key.exists

\* The master key of the volume's salt and password A.
KeyA == derive_key(PassA, VolumeSalt, KEY_SIZE)

\* C12, as the specification states it. Nogenkey first session: after a
\* successful prepare on an empty cfgdir with the 17-byte configuration and
\* no "aes256_fp" entry, <cfgdir>/key does not exist.
NogenkeyNoKeyFile ==
    first => ~fs.key.exists

\* C12, amended. After a successful prepare on an empty cfgdir with the
\* 17-byte configuration and no "aes256_fp" entry, the password was
\* prompted for and <cfgdir>/key holds the master key derived from it and
\* the salt, the key of the session; <cfgdir>/key does not exist only when
\* opening, writing or closing it failed.
NogenkeyKeyFile ==
    first =>
        /\ prep.ret = 0
        /\ prep.prompted
        /\ prep.ctxkey = KeyA
        /\ IF prep.fault \in {"keyw_open", "keyw_write", "keyw_close"}
           THEN ~fs.key.exists
           ELSE fs.key = File(KeyA)

\* The first session on an empty cfgdir succeeded and left its key in
\* <cfgdir>/key.
FirstSessionKeyFile ==
    /\ first
    /\ ctx # <<>>
    /\ prep.fault = "none"
    /\ fs.key = File(ctx[1].key)

\* The last prepare derived its key from a prompted password, was shipped
\* no fingerprint, and succeeded.
DerivedWithoutFp ==
    /\ prep.called
    /\ prep.prompted
    /\ prep.have_fp = 0
    /\ prep.ret = 0

\* The last prepare was given the 16-byte configuration.
Paranoid == ~prep.null /\ prep.len = SALT_SIZE

\* The "aes256_fp" entry is the salt followed by the fingerprint of key:
\* fp_salt (the salt drawn) and the digest derived from the hexadecimal
\* SHA-256 of key with fp_salt.
StoredLayout(salt, key) ==
    /\ meta.has
    /\ Len(meta.val) = SALT_SIZE + FP_SIZE
    /\ Bytes(meta.val, 0, SALT_SIZE) = salt
    /\ Bytes(meta.val, SALT_SIZE, SALT_SIZE) = RandomSalt
    /\ Bytes(meta.val, 2 * SALT_SIZE, KEY_SIZE)
          = derive_key(Bin2Hex(Sha256(key)), RandomSalt, KEY_SIZE)

\* C13, as the specification states it. Whenever prepare derives a key from
\* a password and no fingerprint was shipped, it stores under "aes256_fp"
\* the volume salt followed by the fingerprint of the key.
FingerprintStoredAlways ==
    DerivedWithoutFp =>
        /\ prep.stored
        /\ StoredLayout(VolumeSalt, prep.ctxkey)

\* The last prepare found the stored fingerprint in its configuration and
\* prompted for the password of the first session, and no call that it
\* cannot do without failed.
SamePasswordAgain ==
    /\ prep.called
    /\ prep.afterFirst
    /\ prep.have_fp # 0
    /\ meta.has
    /\ prep.fp = Bytes(meta.val, SALT_SIZE, FP_SIZE)
    /\ prep.prompted
    /\ ~prep.abort
    /\ prep.pass = PassA
    /\ prep.fault \in {"none", "key_open", "keyw_open", "keyw_write",
                       "keyw_close"}

\* C13, amended. Whenever prepare, given another configuration than the
\* 16-byte one, derives a key from a prompted password and no fingerprint
\* was shipped, it stores under "aes256_fp" the salt it derived the key
\* with (the volume salt of the 17-byte configuration) followed by the
\* fingerprint of the key (fp_salt, then the digest); with the 16-byte
\* configuration it stores nothing.  A later prepare that finds this value
\* in its configuration and prompts for the same password verifies it and
\* obtains the same key.
FingerprintCreation ==
    /\ DerivedWithoutFp =>
          IF Paranoid THEN ~prep.stored
          ELSE /\ prep.stored
               /\ StoredLayout(Bytes(meta.val, 0, SALT_SIZE), prep.ctxkey)
               /\ prep.ctxkey
                    = derive_key(prep.pass, Bytes(meta.val, 0, SALT_SIZE),
                                 KEY_SIZE)
               /\ prep.saltinit => Bytes(meta.val, 0, SALT_SIZE) = VolumeSalt
    /\ SamePasswordAgain => prep.ret = 0 /\ prep.ctxkey = KeyA

\* A second session that found no key file verified the password of the
\* first session against the fingerprint the first session stored.
StoredFingerprintVerified ==
    /\ SamePasswordAgain
    /\ prep.ret = 0
    /\ StoredLayout(VolumeSalt, prep.ctxkey)

\* The last prepare was given a configuration of one of the three lengths.
KnownLength ==
    /\ ~prep.null
    /\ prep.len \in {SALT_SIZE, SALT_SIZE + 1, SALT_SIZE + FP_SIZE}

\* C14. Configuration dispatch: prepare accepts a configuration only when
\* its length is that of the salt, of the salt and one byte, or of the salt
\* and a fingerprint; given any other one (none at all and an empty one
\* included) it fails with ConfigurationError, publishes no context and
\* never asks for a password to derive a key with a salt that was not set.
BlobDispatch ==
    prep.called =>
        /\ prep.ret = 0 => KnownLength
        /\ (~KnownLength /\ prep.fault = "none") =>
              /\ prep.ret = -1
              /\ prep.err = "ConfigurationError"
              /\ prep.handle = <<>>
        /\ prep.prompted => prep.saltinit

\* The context a is initialised for a session in mode m: the key is in
\* place, both HMAC contexts and the cipher context of the mode are keyed,
\* the counters, the buffers and the digest of the IV chain are zero.
Initialised(a, m) ==
    /\ Len(a.key) = KEY_SIZE
    /\ a.ivhash = HmacKey(a)
    /\ a.hmac = HmacKey(a)
    /\ IF m = SXF_MODE_UPLOAD THEN Len(a.ectx) = AES_KEY_LENGTH
       ELSE Len(a.dctx) = AES_KEY_LENGTH
    /\ a.ivmac = Zeros(EVP_MAX_MD_SIZE)
    /\ a.inbytes = 0 /\ a.blkbytes = 0 /\ a.data_in = 0
    /\ a.data_out_left = 0 /\ a.data_end = 0 /\ a.decrypt_err = 0
    /\ a.in = Zeros(BufSize) /\ a.blk = Zeros(BufSize)

FinishTeardown ==
    fin.called =>
        /\ fin.ret = 0
        /\ ctx = <<>>
        /\ IF fin.none
           THEN fin.freed = {} /\ fin.released = <<>>
           ELSE /\ fin.freed = IF fin.keyfile THEN {"actx", "keyfile"}
                               ELSE {"actx"}
                /\ Len(fin.released) = 1
                /\ fin.released[1].key = Zeros(KEY_SIZE)
                /\ fin.released[1] = NewCtx(Zeros(KEY_SIZE), FALSE)

\* A download that failed was ended by finish, and finish was called once
\* more on the handle.
FinishedTwiceAfterFailure ==
    /\ fin.called
    /\ fin.none
    /\ fin.again
    /\ phase = "done"
    /\ mode = SXF_MODE_DOWNLOAD
    /\ last.ret < 0
    /\ ctx = <<>>

\* C15. Block order: a download succeeds only when the wire blocks are
\* presented in the order in which the upload produced them; the download
\* of the whole wire blocks of an upload in another order, or without the
\* first block, does not complete.
BlockOrder ==
    (mode = SXF_MODE_DOWNLOAD /\ tamper = <<>> /\ src # wire) =>
        phase # "complete"

\* C18. Input staging bound: in every state of a session, after any calls
\* of process with any input sizes, calls that returned an error included,
\* inbytes is at most FILTER_BLOCK_SIZE in an upload and at most
\* sizeof(actx->in) in a download, so that no copy into actx->in goes past
\* its end.
StagingBound ==
    ctx # <<>> =>
        /\ ctx[1].inbytes >= 0
        /\ ctx[1].inbytes <= BSize(mode)
        /\ BSize(mode) <= Len(ctx[1].in)
        /\ BSize(SXF_MODE_UPLOAD) = FILTER_BLOCK_SIZE
        /\ BSize(SXF_MODE_DOWNLOAD)
              = IV_SIZE + FILTER_BLOCK_SIZE + AES_BLOCK_SIZE + MAC_SIZE

\* After a failed call of a download, a call with a slice shorter than what
\* was already taken filled the staging buffer to its capacity and failed
\* again.
StagedAfterError ==
    /\ mode = SXF_MODE_DOWNLOAD
    /\ phase = "failed"
    /\ last.called
    /\ last.ret < 0
    /\ last.inbytes > 0
    /\ last.data_in > insize
    /\ ctx[1].inbytes = BufSize - MAC_SIZE

\* The number of bytes staged in actx->in when the last call reached the
\* block condition: what was staged at entry and what the call took.
Staged ==
    last.inbytes + Min(BSize(mode) - last.inbytes, insize - last.data_in)

\* The last call made a block and handed out its first bytes.
Produced ==
    /\ ctx # <<>>
    /\ phase \in {"run", "complete"}
    /\ last.called
    /\ last.ret > 0
    /\ ~(last.action = SXF_ACTION_REPEAT /\ last.out_left # 0)

\* IV, the ciphertext of n bytes of plaintext with its padding, and the tag.
WireLen(n) ==
    IV_SIZE + ((n + AES_BLOCK_SIZE) \div AES_BLOCK_SIZE) * AES_BLOCK_SIZE
            + MAC_SIZE

\* C19. Wire block length: the block an upload makes of N staged bytes,
\* 1 <= N <= FILTER_BLOCK_SIZE, is IV_SIZE + ceil((N+1)/AES_BLOCK_SIZE) *
\* AES_BLOCK_SIZE + MAC_SIZE bytes long; the block of a full plaintext block
\* is as long as actx->blk and as the block size of a download; every block
\* a download decrypts is one wire block of the upload, whole.
WireBlockLength ==
    /\ WireLen(FILTER_BLOCK_SIZE) = BufSize
    /\ BSize(SXF_MODE_DOWNLOAD) = BufSize
    /\ (Produced /\ mode = SXF_MODE_UPLOAD) =>
          /\ Staged \in 1..FILTER_BLOCK_SIZE
          /\ last.ret + ctx[1].data_out_left = WireLen(Staged)
          /\ ctx[1].data_out_left > 0 => ctx[1].blkbytes = WireLen(Staged)
          /\ WireLen(Staged) <= Len(ctx[1].blk)
          /\ Len(ctx[1].blk) = BufSize
    /\ (phase = "complete" /\ mode = SXF_MODE_UPLOAD) =>
          Len(sink) = (Len(plain) \div FILTER_BLOCK_SIZE) * BufSize
                      + (IF Len(plain) % FILTER_BLOCK_SIZE = 0 THEN 0
                         ELSE WireLen(Len(plain) % FILTER_BLOCK_SIZE))
    /\ (Produced /\ mode = SXF_MODE_DOWNLOAD) =>
          \E k \in 0..(Len(wire) \div BufSize) :
             /\ Bytes(ctx[1].in, 0, Staged)
                   = Bytes(wire, k * BufSize, Staged)
             /\ Staged = BufSize \/ k * BufSize + Staged = Len(wire)

\* An upload staged a full plaintext block and made of it a wire block that
\* fills actx->blk.
FullWireBlock ==
    /\ Produced
    /\ mode = SXF_MODE_UPLOAD
    /\ Staged = FILTER_BLOCK_SIZE
    /\ last.ret + ctx[1].data_out_left = BufSize

\* The wire block b carries the tag of its bytes and decrypts to a plaintext
\* with good padding.
Authentic(actx, b) ==
    /\ Len(b) >= IV_SIZE + MAC_SIZE
    /\ LET n  == Len(b) - MAC_SIZE
           pp == CBCDecrypt(actx.dctx, Bytes(b, 0, IV_SIZE),
                            Bytes(b, IV_SIZE, n - IV_SIZE))
       IN  /\ Bytes(b, n, MAC_SIZE) = BlockMac(actx, b, n)
           /\ (n - IV_SIZE) % AES_BLOCK_SIZE = 0
           /\ PadFound(pp) # 0

\* The plaintext of the authentic wire block b.
BlockPlain(actx, b) ==
    LET n  == Len(b) - MAC_SIZE
        pp == CBCDecrypt(actx.dctx, Bytes(b, 0, IV_SIZE),
                         Bytes(b, IV_SIZE, n - IV_SIZE))
    IN  Bytes(pp, 0, Len(pp) - PadFound(pp))

\* The plaintext of the wire blocks of s up to the first one that is not
\* authentic.
RECURSIVE AuthPlain(_, _)
AuthPlain(actx, s) ==
    IF s = <<>> THEN <<>>
    ELSE LET b == SubSeq(s, 1, Min(BufSize, Len(s)))
         IN  IF ~Authentic(actx, b) THEN <<>>
             ELSE BlockPlain(actx, b)
                  \o AuthPlain(actx, SubSeq(s, Len(b) + 1, Len(s)))

\* C20. Authenticate before emit: in a download the bytes handed to the
\* caller, by the call that decrypts a block or by a later drain, are
\* plaintext of wire blocks whose tag compared equal and whose padding was
\* good; a call that fails returns a negative value, writes nothing and
\* leaves nothing pending; when it failed on the tag or the padding of a
\* staged block, decrypt_err is set.
AuthenticateBeforeEmit ==
    (ctx # <<>> /\ mode = SXF_MODE_DOWNLOAD /\ last.called) =>
        /\ IsPrefix(sink, AuthPlain(ctx[1], src))
        /\ Produced => Authentic(ctx[1], Bytes(ctx[1].in, 0, Staged))
        /\ last.ret < 0 =>
              /\ last.wrote = 0
              /\ ctx[1].data_out_left = 0
              /\ Staged >= IV_SIZE + MAC_SIZE =>
                    /\ ctx[1].decrypt_err = 1
                    /\ ~Authentic(ctx[1], Bytes(ctx[1].in, 0, Staged))

\* A download delivered the plaintext of the first wire block, then failed
\* on the bad padding of a second block whose tag compared equal, and
\* delivered none of it.
BadPaddingRejected ==
    /\ mode = SXF_MODE_DOWNLOAD
    /\ phase = "failed"
    /\ last.ret < 0
    /\ last.wrote = 0
    /\ ctx[1].decrypt_err = 1
    /\ Len(sink) = FILTER_BLOCK_SIZE
    /\ LET b == Bytes(ctx[1].in, 0, Staged)
       IN  Bytes(b, Len(b) - MAC_SIZE, MAC_SIZE)
              = BlockMac(ctx[1], b, Len(b) - MAC_SIZE)

\* The last prepare returned after it had read the key from the key file
\* or derived it from the password: with a context, or with a fingerprint
\* that does not match, a failed fingerprint computation, a failed store
\* of the metadata, a failed allocation of the context or a failed
\* initialisation of the HMAC or cipher contexts.
ReturnedWithKey ==
    /\ prep.called
    /\ \/ prep.ret = 0
       \/ prep.err \in {"InvalidPassword", "Fingerprint", "MetadataStore",
                        "Init"}
       \/ prep.err = "Oom" /\ prep.fault = "oom_actx"

\* C21. Key zeroisation in prepare: on every return of prepare after the
\* key was read or derived into the local array key, that array holds
\* zeroes.
KeyZeroisation ==
    ReturnedWithKey => prep.key = Zeros(KEY_SIZE)

\* Plaintext block j of the stream s: FILTER_BLOCK_SIZE bytes, less for the
\* last one.
PlainBlock(s, j) ==
    Bytes(s, (j - 1) * FILTER_BLOCK_SIZE,
          Min(FILTER_BLOCK_SIZE, Len(s) - (j - 1) * FILTER_BLOCK_SIZE))

\* ivmac after the first k blocks of the stream s under the HMAC key kmac:
\* all zero at first, then the HMAC-SHA1 digest of the ivmac before the
\* block followed by the plaintext of the block.
RECURSIVE IvState(_, _, _)
IvState(kmac, s, k) ==
    IF k = 0 THEN Zeros(EVP_MAX_MD_SIZE)
    ELSE LET before == IvState(kmac, s, k - 1)
         IN  MemCpy(before, 0,
                    HMAC(AlgSha1, SHA_DIGEST_LENGTH, kmac,
                         before \o PlainBlock(s, k)))

\* The wire bytes the upload has made so far: those handed out and those
\* still pending in actx->blk.
WireSoFar ==
    sink \o Bytes(ctx[1].blk, ctx[1].blkbytes - ctx[1].data_out_left,
                  ctx[1].data_out_left)

\* The number of wire blocks the upload has made so far.
BlocksSoFar == (Len(WireSoFar) + BufSize - 1) \div BufSize

\* C22. IV chaining on upload: a session starts with ivmac all zero; after
\* the upload has made k blocks, whatever slices the host offered, ivmac is
\* the digest chain over the first k plaintext blocks and the IV on the
\* wire of each block j <= k is the first IV_SIZE bytes of the HMAC-SHA1
\* digest, under the first half of the key, of the ivmac before the block
\* followed by its plaintext; a download leaves ivmac all zero.
IvChaining ==
    (ctx # <<>> /\ phase \in {"run", "complete"}) =>
        /\ ~last.called => ctx[1].ivmac = Zeros(EVP_MAX_MD_SIZE)
        /\ mode = SXF_MODE_DOWNLOAD => ctx[1].ivmac = Zeros(EVP_MAX_MD_SIZE)
        /\ mode = SXF_MODE_UPLOAD =>
              LET kmac == Bytes(ctx[1].key, 0, KEY_SIZE \div 2)
              IN  /\ ctx[1].ivmac = IvState(kmac, plain, BlocksSoFar)
                  /\ \A j \in 1..BlocksSoFar :
                        Bytes(WireSoFar, (j - 1) * BufSize, IV_SIZE)
                           = Bytes(IvState(kmac, plain, j), 0, IV_SIZE)

\* An upload made two wire blocks; the IV of the second is derived from the
\* digest the first one left in ivmac.
SecondBlockChained ==
    /\ ctx # <<>>
    /\ mode = SXF_MODE_UPLOAD
    /\ phase = "complete"
    /\ BlocksSoFar = 2
    /\ Bytes(sink, BufSize, IV_SIZE) = Bytes(ctx[1].ivmac, 0, IV_SIZE)
    /\ Bytes(sink, BufSize, IV_SIZE) # Bytes(sink, 0, IV_SIZE)

\* C23. Protocol invariant of process: with a host that calls again with
\* SXF_ACTION_REPEAT and the same slice after it was answered
\* SXF_ACTION_REPEAT, after every call that did not fail data_in is at most
\* insize and data_out_left at most blkbytes, which is at most
\* sizeof(actx->blk); when the answer is SXF_ACTION_NORMAL or
\* SXF_ACTION_DATA_END, data_out_left and data_in are 0; when it is
\* SXF_ACTION_REPEAT, output is pending or part of the slice is not taken.
ProtocolInvariant ==
    (ctx # <<>> /\ last.called /\ last.ret >= 0) =>
        /\ ctx[1].data_in >= 0
        /\ ctx[1].data_in <= insize
        /\ ctx[1].data_out_left >= 0
        /\ ctx[1].data_out_left <= ctx[1].blkbytes
        /\ ctx[1].blkbytes <= Len(ctx[1].blk)
        /\ Len(ctx[1].blk) = BufSize
        /\ act \in {SXF_ACTION_NORMAL, SXF_ACTION_DATA_END} =>
              ctx[1].data_out_left = 0 /\ ctx[1].data_in = 0
        /\ act = SXF_ACTION_REPEAT =>
              ctx[1].data_out_left > 0 \/ ctx[1].data_in < insize

\* The host called again with SXF_ACTION_REPEAT while output was pending;
\* the call handed out the last pending bytes and answered
\* SXF_ACTION_REPEAT once more, because part of the slice is not taken yet.
RepeatForInput ==
    /\ ctx # <<>>
    /\ last.called
    /\ last.action = SXF_ACTION_REPEAT
    /\ last.out_left > 0
    /\ last.ret > 0
    /\ act = SXF_ACTION_REPEAT
    /\ ctx[1].data_out_left = 0
    /\ ctx[1].data_in > 0
    /\ ctx[1].data_in < insize

=============================================================================
